---- MODULE Spec2Model ----
(***************************************************************************)
(* Account REST API service (service/routes.py).                           *)
(*                                                                         *)
(* The request handlers of routes.py are modelled as operators over the    *)
(* store they are given and as one action per route.  The Account entity   *)
(* and its store adapter (service/models.py) and the error handlers that   *)
(* turn a validation error into a 400 are not part of the sources at hand; *)
(* they are modelled from the written specification (sections 3, 4.1, 7).  *)
(***************************************************************************)
EXTENDS Integers, Sequences, FiniteSets, TLC

(* Bound: how many ids the store hands out in one run. *)
MaxId == 2

(***************************************************************************)
(* Values                                                                  *)
(***************************************************************************)
(* Python's None, JSON's null. *)
None == "None"

(* The dates of the model: day d is written DateStrings[d] on the wire. *)
DateStrings == <<"2024-01-01", "2024-01-02">>
Days == DOMAIN DateStrings

HTTP_200_OK == 200
HTTP_201_CREATED == 201
HTTP_204_NO_CONTENT == 204
HTTP_400_BAD_REQUEST == 400
HTTP_404_NOT_FOUND == 404
HTTP_415_UNSUPPORTED_MEDIA_TYPE == 415
HTTP_500_INTERNAL_SERVER_ERROR == 500

JSON == "application/json"
(* Content-Type headers a client sends; None is the absent header. *)
ContentTypes == {None, JSON, "text/html"}

Required == {"name", "email", "address"}
Fields == Required \cup {"phone_number", "date_joined"}

(* A request body: a JSON mapping holding any subset of the fields. *)
Opt(f, S) == {<<>>} \cup {f :> v : v \in S}
Bodies ==
    {n @@ e @@ a @@ p @@ d :
        n \in Opt("name", {"", "a"}),
        e \in Opt("email", {"e"}),
        a \in Opt("address", {"s"}),
        p \in Opt("phone_number", {"p"}),
        d \in Opt("date_joined", {DateStrings[1], "not-a-date"})}

(* The path of a resource, as its segments: / is <<>>. *)
RootPath == <<>>
AccountPath(id) == <<"accounts", id>>

(***************************************************************************)
(* Account entity and store adapter                                        *)
(***************************************************************************)
(* Account(): a fresh entity, nothing set. *)
NewAccount ==
    [id |-> 0, name |-> None, email |-> None, address |-> None,
     phone_number |-> None, date_joined |-> 0]

fromisoformat_ok(s) == \E d \in Days : DateStrings[d] = s
fromisoformat(s) == CHOOSE d \in Days : DateStrings[d] = s
isoformat(d) == DateStrings[d]

(* deserialize(payload): a ValidationError (ok = FALSE) when a required    *)
(* field is absent or date_joined does not parse; on success every field   *)
(* but id is set from the payload, an absent phone_number to null and an   *)
(* absent date_joined to the current date.  The bodies of the model hold  *)
(* phone numbers that are texts only, so of the two shapes deserialize     *)
(* rejects, the unparsable date is the one that occurs.                    *)
Account_deserialize(account, data, now) ==
    IF \/ Required \ DOMAIN data # {}
       \/ /\ "date_joined" \in DOMAIN data
          /\ ~fromisoformat_ok(data["date_joined"])
    THEN [ok |-> FALSE, account |-> account]
    ELSE [ok |-> TRUE,
          account |->
            [id |-> account.id,
             name |-> data["name"],
             email |-> data["email"],
             address |-> data["address"],
             phone_number |->
                IF "phone_number" \in DOMAIN data
                THEN data["phone_number"] ELSE None,
             date_joined |->
                IF "date_joined" \in DOMAIN data
                THEN fromisoformat(data["date_joined"]) ELSE now]]

(* serialize(): every attribute, date_joined as an ISO date string. *)
Account_serialize(account) ==
    [id |-> account.id, name |-> account.name, email |-> account.email,
     address |-> account.address, phone_number |-> account.phone_number,
     date_joined |-> isoformat(account.date_joined)]

(* An id assignment that reads the table instead of the sequence: one     *)
(* more than the highest id stored.                                        *)
AssignId_max_plus_one(st, seq) ==
    IF DOMAIN st = {} THEN 1
    ELSE (CHOOSE m \in DOMAIN st : \A i \in DOMAIN st : i <= m) + 1

(* The id the store assigns to a new row: the next value of the           *)
(* primary-key sequence, whatever rows the table holds.                    *)
AssignId(st, seq) == seq

(* create(): inserts a row under the id the store assigns; the entity      *)
(* gains that id.                                                          *)
Account_create(st, seq, account) ==
    LET id == AssignId(st, seq)
        new == [account EXCEPT !.id = id]
    IN
    [account |-> new,
     store |-> [i \in DOMAIN st \cup {id} |-> IF i = id THEN new ELSE st[i]],
     seq |-> id + 1]

(* find(id): the entity, or the not-found sentinel (found = FALSE). *)
Account_find(st, id) ==
    IF id \in DOMAIN st
    THEN [found |-> TRUE, account |-> st[id]]
    ELSE [found |-> FALSE, account |-> NewAccount]

(* update(): overwrites the row of the entity's id; NotFoundError          *)
(* (ok = FALSE) when there is no such row.                                 *)
Account_update(st, account) ==
    IF account.id \in DOMAIN st
    THEN [ok |-> TRUE, store |-> [st EXCEPT ![account.id] = account]]
    ELSE [ok |-> FALSE, store |-> st]

(* delete(): removes the row of the entity's id, a no-op when absent. *)
Account_delete(st, account) ==
    [i \in DOMAIN st \ {account.id} |-> st[i]]

(* all(): every stored entity; the order is the store's, here `order`. *)
Account_all(st, order) == [k \in DOMAIN order |-> st[order[k]]]

(* The orders in which the store may return the rows with ids S. *)
Orders(S) ==
    {o \in [1..Cardinality(S) -> S] : \A i, j \in DOMAIN o : i # j => o[i] # o[j]}

(***************************************************************************)
(* Request handlers (service/routes.py)                                    *)
(***************************************************************************)
(* What a handler leaves behind: the response and the store. *)
Outcome(status, body, location, st, seq) ==
    [status |-> status, body |-> body, location |-> location,
     store |-> st, seq |-> seq]

(* abort(status, ...): an error response, the store as it was. *)
Abort(status, st, seq) == Outcome(status, <<>>, RootPath, st, seq)

(* check_content_type with the test for a missing header turned round: a  *)
(* request without a Content-Type goes on.                                 *)
check_content_type_absent_ok(content_type, media_type) ==
    content_type = None \/ content_type = media_type

(* check_content_type: TRUE when the request goes on, FALSE when it is     *)
(* aborted with 415.                                                       *)
check_content_type(content_type, media_type) ==
    content_type # None /\ content_type = media_type

(* create_accounts with account.create() moved before                      *)
(* account.deserialize(): the row is inserted before the body is checked.  *)
create_accounts_create_first(st, seq, now, content_type, data) ==
    IF ~check_content_type(content_type, JSON)
    THEN Abort(HTTP_415_UNSUPPORTED_MEDIA_TYPE, st, seq)
    ELSE
      LET c == Account_create(st, seq, [NewAccount EXCEPT !.date_joined = now])
          d == Account_deserialize(c.account, data, now)
      IN
      IF ~d.ok
      THEN Abort(HTTP_400_BAD_REQUEST, c.store, c.seq)
      ELSE
        LET u == Account_update(c.store, d.account) IN
        Outcome(HTTP_201_CREATED, Account_serialize(d.account), RootPath,
                u.store, c.seq)

create_accounts(st, seq, now, content_type, data) ==
    IF ~check_content_type(content_type, JSON)
    THEN Abort(HTTP_415_UNSUPPORTED_MEDIA_TYPE, st, seq)
    ELSE
      LET d == Account_deserialize(NewAccount, data, now) IN
      IF ~d.ok
      THEN Abort(HTTP_400_BAD_REQUEST, st, seq)
      ELSE
        LET c == Account_create(st, seq, d.account)
            message == Account_serialize(c.account)
            location_url == RootPath
        IN Outcome(HTTP_201_CREATED, message, location_url, c.store, c.seq)

(* list_accounts that loses the last account of the list. *)
list_accounts_drop_last(st, seq, order) ==
    LET accounts == Account_all(st, order)
        account_list ==
            [k \in 1..(Len(accounts) - 1) |-> Account_serialize(accounts[k])]
    IN Outcome(HTTP_200_OK, account_list, RootPath, st, seq)

list_accounts(st, seq, order) ==
    LET accounts == Account_all(st, order)
        account_list == [k \in DOMAIN accounts |-> Account_serialize(accounts[k])]
    IN Outcome(HTTP_200_OK, account_list, RootPath, st, seq)

(* read_an_account without the abort: an id that is not found is answered *)
(* 200 with an empty body.                                                 *)
read_an_account_no_abort(st, seq, account_id) ==
    LET f == Account_find(st, account_id) IN
    Outcome(HTTP_200_OK,
            IF f.found THEN Account_serialize(f.account) ELSE <<>>,
            RootPath, st, seq)

read_an_account(st, seq, account_id) ==
    LET f == Account_find(st, account_id) IN
    IF ~f.found
    THEN Abort(HTTP_404_NOT_FOUND, st, seq)
    ELSE Outcome(HTTP_200_OK, Account_serialize(f.account), RootPath, st, seq)

(* update_an_account without account.update(): the change is answered and *)
(* never saved.                                                            *)
update_an_account_no_save(st, seq, now, account_id, data) ==
    LET f == Account_find(st, account_id) IN
    IF ~f.found
    THEN Abort(HTTP_404_NOT_FOUND, st, seq)
    ELSE
      LET d == Account_deserialize(f.account, data, now) IN
      IF ~d.ok
      THEN Abort(HTTP_400_BAD_REQUEST, st, seq)
      ELSE Outcome(HTTP_200_OK, Account_serialize(d.account), RootPath, st, seq)

(* update_an_account that creates the account when the id is not found. *)
update_an_account_upsert(st, seq, now, account_id, data) ==
    LET f == Account_find(st, account_id)
        d == Account_deserialize(f.account, data, now)
    IN
    IF ~d.ok
    THEN Abort(HTTP_400_BAD_REQUEST, st, seq)
    ELSE
      LET new == [d.account EXCEPT !.id = account_id] IN
      Outcome(HTTP_200_OK, Account_serialize(new), RootPath,
              [i \in DOMAIN st \cup {account_id} |->
                  IF i = account_id THEN new ELSE st[i]], seq)

update_an_account(st, seq, now, account_id, data) ==
    LET f == Account_find(st, account_id) IN
    IF ~f.found
    THEN Abort(HTTP_404_NOT_FOUND, st, seq)
    ELSE
      LET d == Account_deserialize(f.account, data, now) IN
      IF ~d.ok
      THEN Abort(HTTP_400_BAD_REQUEST, st, seq)
      ELSE
        LET u == Account_update(st, d.account) IN
        IF ~u.ok
        THEN Abort(HTTP_500_INTERNAL_SERVER_ERROR, st, seq)
        ELSE Outcome(HTTP_200_OK, Account_serialize(d.account), RootPath,
                     u.store, seq)

(* delete_an_account that answers 404 when the id is not found. *)
delete_an_account_404(st, seq, account_id) ==
    LET f == Account_find(st, account_id) IN
    IF ~f.found
    THEN Abort(HTTP_404_NOT_FOUND, st, seq)
    ELSE Outcome(HTTP_204_NO_CONTENT, <<>>, RootPath,
                 Account_delete(st, f.account), seq)

delete_an_account(st, seq, account_id) ==
    LET f == Account_find(st, account_id) IN
    Outcome(HTTP_204_NO_CONTENT, <<>>, RootPath,
            IF f.found THEN Account_delete(st, f.account) ELSE st, seq)

(***************************************************************************)
(* State                                                                   *)
(***************************************************************************)
VARIABLES
    store,      \* the accounts table: id -> row
    seq,        \* the next value of the primary-key sequence
    today,      \* the current date (a day of Days)
    request,    \* the request being served (method NONE: none)
    response,   \* its response (status 0: not yet responded)
    issued,     \* history: the ids returned by the successful creates, in order
    created,    \* history: id -> the representation its create returned, for
                \*          the accounts not updated or deleted since
    deletes,    \* history: whether a DELETE has been served
    put,        \* a PUT handler running step by step beside a DELETE
    del         \* a DELETE handler running step by step beside a PUT

vars == <<store, seq, today, request, response, issued, created, deletes,
          put, del>>

(* The handlers that run step by step are idle in the one-request-at-a-time *)
(* specification.                                                           *)
conc == <<put, del>>

Request(method, id, content_type, data) ==
    [method |-> method, id |-> id, content_type |-> content_type, data |-> data]

NoRequest == Request("NONE", 0, None, <<>>)

Response(o) == [status |-> o.status, body |-> o.body, location |-> o.location]

NoResponse == [status |-> 0, body |-> <<>>, location |-> RootPath]

Without(f, id) == [i \in DOMAIN f \ {id} |-> f[i]]
With(f, id, v) == [i \in DOMAIN f \cup {id} |-> IF i = id THEN v ELSE f[i]]

(* The ids a request may name: those the store can hold, and one more. *)
Ids == 1..(MaxId + 1)

(* The requests a client may send. *)
Requests ==
    {Request("POST", 0, ct, data) : ct \in ContentTypes, data \in Bodies}
    \cup {Request("LIST", 0, None, <<>>)}
    \cup {Request("GET", id, None, <<>>) : id \in Ids}
    \cup {Request("PUT", id, None, data) : id \in Ids, data \in Bodies}
    \cup {Request("DELETE", id, None, <<>>) : id \in Ids}

IdlePut ==
    [pc |-> "idle", id |-> 0, data |-> <<>>, account |-> NewAccount,
     status |-> 0, updated_before_delete |-> FALSE]

IdleDel == [pc |-> "idle", id |-> 0, account |-> NewAccount, status |-> 0]

Init ==
    /\ store = <<>>
    /\ seq = 1
    /\ today = 1
    /\ request = NoRequest
    /\ response = NoResponse
    /\ issued = <<>>
    /\ created = <<>>
    /\ deletes = FALSE
    /\ put = IdlePut
    /\ del = IdleDel

(* A request arrives (RECEIVED). *)
Receive ==
    /\ request.method = "NONE"
    /\ \E r \in Requests :
        /\ r.method = "POST" => Len(issued) < MaxId
        /\ request' = r
    /\ UNCHANGED <<store, seq, today, response, issued, created, deletes, conc>>

(* The request `method` is received and not yet responded to. *)
Pending(method) == request.method = method /\ response.status = 0

(* The request `method` has been handled and its response is at hand. *)
Handled(method) == request.method = method /\ response.status # 0

(* The step that handles the pending request `method`. *)
Handling(method) == Pending(method) /\ response'.status # 0

(* POST /accounts *)
CreateAccounts ==
    /\ Pending("POST")
    /\ LET o == create_accounts(store, seq, today, request.content_type,
                                request.data) IN
        /\ response' = Response(o)
        /\ store' = o.store
        /\ seq' = o.seq
        /\ IF o.status = HTTP_201_CREATED
           THEN /\ issued' = Append(issued, o.body.id)
                /\ created' = With(created, o.body.id, o.body)
           ELSE UNCHANGED <<issued, created>>
    /\ UNCHANGED <<today, request, deletes, conc>>

(* GET /accounts *)
ListAccounts ==
    /\ Pending("LIST")
    /\ \E order \in Orders(DOMAIN store) :
        LET o == list_accounts(store, seq, order) IN
        /\ response' = Response(o)
        /\ store' = o.store
        /\ seq' = o.seq
    /\ UNCHANGED <<today, request, issued, created, deletes, conc>>

(* GET /accounts/<id> *)
ReadAnAccount ==
    /\ Pending("GET")
    /\ LET o == read_an_account(store, seq, request.id) IN
        /\ response' = Response(o)
        /\ store' = o.store
        /\ seq' = o.seq
    /\ UNCHANGED <<today, request, issued, created, deletes, conc>>

(* PUT /accounts/<id> *)
UpdateAnAccount ==
    /\ Pending("PUT")
    /\ LET o == update_an_account(store, seq, today, request.id, request.data) IN
        /\ response' = Response(o)
        /\ store' = o.store
        /\ seq' = o.seq
        /\ created' = IF o.status = HTTP_200_OK
                      THEN Without(created, request.id) ELSE created
    /\ UNCHANGED <<today, request, issued, deletes, conc>>

(* DELETE /accounts/<id> *)
DeleteAnAccount ==
    /\ Pending("DELETE")
    /\ LET o == delete_an_account(store, seq, request.id) IN
        /\ response' = Response(o)
        /\ store' = o.store
        /\ seq' = o.seq
    /\ created' = Without(created, request.id)
    /\ deletes' = TRUE
    /\ UNCHANGED <<today, request, issued, conc>>

(* The response is sent (RESPONDED); the request's state is dropped. *)
Respond ==
    /\ request.method # "NONE"
    /\ response.status # 0
    /\ request' = NoRequest
    /\ response' = NoResponse
    /\ UNCHANGED <<store, seq, today, issued, created, deletes, conc>>

(* Midnight: the current date moves on. *)
Tick ==
    /\ today + 1 \in Days
    /\ today' = today + 1
    /\ UNCHANGED <<store, seq, request, response, issued, created, deletes, conc>>

Next ==
    \/ Receive
    \/ CreateAccounts
    \/ ListAccounts
    \/ ReadAnAccount
    \/ UpdateAnAccount
    \/ DeleteAnAccount
    \/ Respond
    \/ Tick

Spec == Init /\ [][Next]_vars

(***************************************************************************)
(* A PUT and a DELETE served at the same time.  Each handler is a find     *)
(* followed by an update or a delete; each store call is one step, and the *)
(* steps of the two handlers interleave in any order.                      *)
(***************************************************************************)
seqstate == <<today, request, response, created, deletes>>

(* An account is created while no PUT and no DELETE is running. *)
ConcCreate ==
    /\ put.pc = "idle"
    /\ del.pc = "idle"
    /\ Len(issued) < MaxId
    /\ \E data \in Bodies :
        LET o == create_accounts(store, seq, today, JSON, data) IN
        /\ o.status = HTTP_201_CREATED
        /\ store' = o.store
        /\ seq' = o.seq
        /\ issued' = Append(issued, o.body.id)
    /\ UNCHANGED <<seqstate, conc>>

(* PUT /accounts/<id> arrives. *)
PutReceive ==
    /\ put.pc = "idle"
    /\ \E account_id \in Ids, data \in Bodies :
        put' = [IdlePut EXCEPT !.pc = "find", !.id = account_id, !.data = data]
    /\ UNCHANGED <<store, seq, issued, seqstate, del>>

(* update_an_account: account = Account.find(account_id), 404 if absent. *)
PutFind ==
    /\ put.pc = "find"
    /\ LET f == Account_find(store, put.id) IN
        put' = IF f.found
               THEN [put EXCEPT !.pc = "deserialize", !.account = f.account]
               ELSE [put EXCEPT !.pc = "done", !.status = HTTP_404_NOT_FOUND]
    /\ UNCHANGED <<store, seq, issued, seqstate, del>>

(* update_an_account: account.deserialize(request.get_json()), 400 if invalid. *)
PutDeserialize ==
    /\ put.pc = "deserialize"
    /\ LET d == Account_deserialize(put.account, put.data, today) IN
        put' = IF d.ok
               THEN [put EXCEPT !.pc = "update", !.account = d.account]
               ELSE [put EXCEPT !.pc = "done", !.status = HTTP_400_BAD_REQUEST]
    /\ UNCHANGED <<store, seq, issued, seqstate, del>>

(* update_an_account: account.update() and the 200; a NotFoundError of the *)
(* store is not handled and ends the request with a server error.          *)
PutUpdate ==
    /\ put.pc = "update"
    /\ LET u == Account_update(store, put.account) IN
        /\ store' = u.store
        /\ put' = [put EXCEPT
                     !.pc = "done",
                     !.status = IF u.ok THEN HTTP_200_OK
                                ELSE HTTP_500_INTERNAL_SERVER_ERROR,
                     !.updated_before_delete = u.ok /\ del.pc # "done"]
    /\ UNCHANGED <<seq, issued, seqstate, del>>

(* DELETE /accounts/<id> arrives. *)
DelReceive ==
    /\ del.pc = "idle"
    /\ \E account_id \in Ids :
        del' = [IdleDel EXCEPT !.pc = "find", !.id = account_id]
    /\ UNCHANGED <<store, seq, issued, seqstate, put>>

(* delete_an_account: account = Account.find(account_id); 204 if absent. *)
DelFind ==
    /\ del.pc = "find"
    /\ LET f == Account_find(store, del.id) IN
        del' = IF f.found
               THEN [del EXCEPT !.pc = "delete", !.account = f.account]
               ELSE [del EXCEPT !.pc = "done", !.status = HTTP_204_NO_CONTENT]
    /\ UNCHANGED <<store, seq, issued, seqstate, put>>

(* delete_an_account: account.delete() and the 204. *)
DelDelete ==
    /\ del.pc = "delete"
    /\ store' = Account_delete(store, del.account)
    /\ del' = [del EXCEPT !.pc = "done", !.status = HTTP_204_NO_CONTENT]
    /\ UNCHANGED <<seq, issued, seqstate, put>>

(* Both responses are sent. *)
ConcRespond ==
    /\ put.pc = "done"
    /\ del.pc = "done"
    /\ put' = IdlePut
    /\ del' = IdleDel
    /\ UNCHANGED <<store, seq, issued, seqstate>>

NextConc ==
    \/ ConcCreate
    \/ PutReceive
    \/ PutFind
    \/ PutDeserialize
    \/ PutUpdate
    \/ DelReceive
    \/ DelFind
    \/ DelDelete
    \/ ConcRespond

SpecConc == Init /\ [][NextConc]_vars

(***************************************************************************)
(* Properties                                                              *)
(***************************************************************************)
(* A body holding every Account field with a valid value. *)
AllValid(data) ==
    DOMAIN data = Fields /\ fromisoformat_ok(data["date_joined"])

(* A body without one of the required fields. *)
MissingRequired(data) == Required \ DOMAIN data # {}

Range(f) == {f[k] : k \in DOMAIN f}

(* C1: a POST /accounts with Content-Type application/json and a body of   *)
(* all valid fields is answered 201 with the serialized account, which     *)
(* echoes every input field and carries a numeric id, and with a Location  *)
(* header that identifies the account of that id.                          *)
C1_CreatedWithLocation ==
    (Handled("POST") /\ request.content_type = JSON /\ AllValid(request.data))
    => /\ response.status = HTTP_201_CREATED
       /\ \A f \in Fields : response.body[f] = request.data[f]
       /\ response.body.id \in Nat \ {0}
       /\ response.location = AccountPath(response.body.id)

(* C2: a POST /accounts whose Content-Type is absent or is not             *)
(* application/json is answered 415 whatever its body is, valid or not,    *)
(* and leaves the stored accounts as they were.                            *)
C2_WrongContentTypeIs415 ==
    [][(Handling("POST") /\ request.content_type # JSON)
       => /\ response'.status = HTTP_415_UNSUPPORTED_MEDIA_TYPE
          /\ store' = store
          /\ seq' = seq]_vars

(* C2's case: a request without a Content-Type and with a valid body was   *)
(* refused with 415 while an account is stored.                            *)
C2_Witness ==
    /\ Handled("POST")
    /\ request.content_type = None
    /\ AllValid(request.data)
    /\ response.status = HTTP_415_UNSUPPORTED_MEDIA_TYPE
    /\ DOMAIN store # {}

(* C3, as claimed: every stored account has a non-empty name and a         *)
(* non-empty email, and a POST /accounts with Content-Type                 *)
(* application/json whose body misses a required field is answered 400 and *)
(* leaves the stored accounts as they were.                                *)
C3_NonEmptyNameAndEmail ==
    [][/\ \A i \in DOMAIN store' :
            /\ store'[i].name \notin {None, ""}
            /\ store'[i].email \notin {None, ""}
       /\ (Handling("POST") /\ request.content_type = JSON
             /\ MissingRequired(request.data))
          => /\ response'.status = HTTP_400_BAD_REQUEST
             /\ store' = store
             /\ seq' = seq]_vars

(* C3, amended: every stored account has a name, an email and an address   *)
(* (each a text of the request that created or updated it, which may be    *)
(* the empty text), and a POST /accounts with Content-Type                 *)
(* application/json whose body misses a required field is answered 400 and *)
(* leaves the stored accounts as they were.                                *)
C3_RequiredFieldsPresent ==
    [][/\ \A i \in DOMAIN store' :
            /\ store'[i].name # None
            /\ store'[i].email # None
            /\ store'[i].address # None
       /\ (Handling("POST") /\ request.content_type = JSON
             /\ MissingRequired(request.data))
          => /\ response'.status = HTTP_400_BAD_REQUEST
             /\ store' = store
             /\ seq' = seq]_vars

(* C3's case: a JSON body with a name and an email and no address was      *)
(* refused with 400 while an account is stored.                            *)
C3_Witness ==
    /\ Handled("POST")
    /\ request.content_type = JSON
    /\ DOMAIN request.data = {"name", "email"}
    /\ response.status = HTTP_400_BAD_REQUEST
    /\ DOMAIN store # {}

(* C4: a GET /accounts/{id} of an account that was created and neither    *)
(* updated nor deleted since is answered 200 with exactly the              *)
(* representation its create returned; a GET of an id under which no       *)
(* account is stored is answered 404.                                      *)
C4_ReadReturnsCreated ==
    Handled("GET")
    => /\ request.id \in DOMAIN created
          => /\ response.status = HTTP_200_OK
             /\ response.body = created[request.id]
       /\ request.id \notin DOMAIN store
          => response.status = HTTP_404_NOT_FOUND

(* C4's case: an account created on the first day is read on the second,   *)
(* while an id that was created and deleted is no longer stored.           *)
C4_Witness ==
    /\ Handled("GET")
    /\ request.id \in DOMAIN created
    /\ response.status = HTTP_200_OK
    /\ today = 2
    /\ response.body.date_joined = DateStrings[1]
    /\ deletes

(* C5: from the empty store, after n successful creates and no delete, a   *)
(* GET /accounts is answered 200 with exactly n entries, each with an id   *)
(* that one of the creates returned.                                       *)
C5_ListReturnsAllCreated ==
    (Handled("LIST") /\ ~deletes)
    => /\ response.status = HTTP_200_OK
       /\ Len(response.body) = Len(issued)
       /\ \A k \in DOMAIN response.body : response.body[k].id \in Range(issued)

(* C5's case: two accounts were created, none deleted, and both are        *)
(* listed, the later one first.                                            *)
C5_Witness ==
    /\ Handled("LIST")
    /\ ~deletes
    /\ Len(issued) = 2
    /\ Len(response.body) = 2
    /\ response.body[1].id = issued[2]

(* C6: a DELETE /accounts/{id} is answered 204 with an empty body whether  *)
(* or not the account exists; afterwards no account has that id (a GET of  *)
(* it gives 404), every other account is as it was, and the same DELETE    *)
(* again gives 204 and leaves the store as it is.                          *)
C6_DeleteIdempotent ==
    [][Handling("DELETE")
       => /\ response'.status = HTTP_204_NO_CONTENT
          /\ response'.body = <<>>
          /\ request.id \notin DOMAIN store'
          /\ read_an_account(store', seq', request.id).status
                = HTTP_404_NOT_FOUND
          /\ DOMAIN store' = DOMAIN store \ {request.id}
          /\ \A i \in DOMAIN store' : store'[i] = store[i]
          /\ LET again == delete_an_account(store', seq', request.id) IN
                /\ again.status = HTTP_204_NO_CONTENT
                /\ again.store = store'
                /\ again.seq = seq']_vars

(* C6's case: an account that was created has been deleted, and another    *)
(* account is still stored.                                                *)
C6_Witness ==
    /\ Handled("DELETE")
    /\ response.status = HTTP_204_NO_CONTENT
    /\ request.id \in Range(issued)
    /\ request.id \notin DOMAIN store
    /\ DOMAIN store # {}

(* The stored value a field of a valid body stands for. *)
Parsed(f, v) == IF f = "date_joined" THEN fromisoformat(v) ELSE v

(* The PUT being handled names a stored account and has a valid body. *)
ValidUpdate ==
    /\ Handling("PUT")
    /\ request.id \in DOMAIN store
    /\ Account_deserialize(store[request.id], request.data, today).ok

(* C7, as claimed: a PUT /accounts/{id} of an existing account changes     *)
(* only the fields its body holds and is answered 200 with them; the       *)
(* fields the body does not hold keep their stored values, and the next    *)
(* GET returns the account with the changes.                               *)
C7_OnlyFieldsInBodyChange ==
    [][ValidUpdate
       => /\ response'.status = HTTP_200_OK
          /\ request.id \in DOMAIN store'
          /\ \A f \in DOMAIN request.data :
                /\ store'[request.id][f] = Parsed(f, request.data[f])
                /\ response'.body[f] = request.data[f]
          /\ \A f \in Fields \ DOMAIN request.data :
                store'[request.id][f] = store[request.id][f]
          /\ read_an_account(store', seq', request.id).body = response'.body]_vars

(* C7, amended: a PUT /accounts/{id} of an existing account with a valid   *)
(* body replaces every field but id: name, email and address by the body's *)
(* values, phone_number by the body's value or by null when the body does  *)
(* not hold it, date_joined by the body's value or by the current date     *)
(* when the body does not hold it.  The answer is 200 with the updated     *)
(* account, the other accounts are as they were, and the next GET returns  *)
(* the updated account.                                                    *)
C7_UpdateReplacesAllFields ==
    [][ValidUpdate
       => /\ response'.status = HTTP_200_OK
          /\ DOMAIN store' = DOMAIN store
          /\ \A i \in DOMAIN store \ {request.id} : store'[i] = store[i]
          /\ store'[request.id].id = request.id
          /\ \A f \in DOMAIN request.data :
                /\ store'[request.id][f] = Parsed(f, request.data[f])
                /\ response'.body[f] = request.data[f]
          /\ "phone_number" \notin DOMAIN request.data
                => store'[request.id].phone_number = None
          /\ "date_joined" \notin DOMAIN request.data
                => store'[request.id].date_joined = today
          /\ response'.body = Account_serialize(store'[request.id])
          /\ read_an_account(store', seq', request.id).body = response'.body]_vars

(* C7's case: on the second day a PUT without phone_number and without     *)
(* date_joined was answered 200: the account has no phone number and the   *)
(* second day as its date.                                                 *)
C7_Witness ==
    /\ Handled("PUT")
    /\ response.status = HTTP_200_OK
    /\ DOMAIN request.data = Required
    /\ today = 2
    /\ store[request.id].phone_number = None
    /\ store[request.id].date_joined = 2

(* C8: a PUT /accounts/{id} that fails leaves the store as it was: it is   *)
(* answered 404 when no account has the id, whatever the body, and creates *)
(* none; it is answered 400 when the account exists and the body misses a  *)
(* required field, and the stored account keeps every value.              *)
C8_FailedUpdateLeavesStore ==
    [][Handling("PUT")
       => /\ request.id \notin DOMAIN store
             => /\ response'.status = HTTP_404_NOT_FOUND
                /\ store' = store
                /\ seq' = seq
          /\ (request.id \in DOMAIN store /\ MissingRequired(request.data))
             => /\ response'.status = HTTP_400_BAD_REQUEST
                /\ store' = store
                /\ seq' = seq
          /\ response'.status # HTTP_200_OK
             => store' = store]_vars

(* C8's case: a PUT of a stored account with a body that misses a required *)
(* field was answered 400.                                                 *)
C8_Witness ==
    /\ Handled("PUT")
    /\ request.id \in DOMAIN store
    /\ MissingRequired(request.data)
    /\ response.status = HTTP_400_BAD_REQUEST

(* C9: every stored account is stored under its own id, so no two have the *)
(* same id, and no id is returned by two creates, also when the account    *)
(* that had it has been deleted in between.                                *)
C9_IdsUniqueNeverReused ==
    /\ \A i \in DOMAIN store : store[i].id = i
    /\ DOMAIN store \subseteq Range(issued)
    /\ \A j, k \in DOMAIN issued : j # k => issued[j] # issued[k]

(* C9's case: an account was created after the account of the first id     *)
(* had been deleted.                                                       *)
C9_Witness ==
    /\ Handled("POST")
    /\ response.status = HTTP_201_CREATED
    /\ deletes
    /\ Len(issued) = 2
    /\ issued[1] \notin DOMAIN store

(* C10: however a PUT /accounts/{id} and a DELETE /accounts/{id} of the    *)
(* same id interleave, the PUT ends with 200, 404 or 400 and with no       *)
(* unhandled storage error, and when both have ended and the DELETE has    *)
(* answered 204 the account is not stored unless the PUT's update          *)
(* completed before the DELETE's delete.                                   *)
C10_PutBesideDelete ==
    /\ put.pc = "done"
       => put.status \in {HTTP_200_OK, HTTP_404_NOT_FOUND, HTTP_400_BAD_REQUEST}
    /\ (put.pc = "done" /\ del.pc = "done" /\ put.id = del.id
          /\ del.status = HTTP_204_NO_CONTENT)
       => (put.id \notin DOMAIN store \/ put.updated_before_delete)
====
